---------------------------- MODULE Spec2Model ----------------------------
(***************************************************************************)
(* A model of the HaloRide landing page's lead flow:                       *)
(*   - the lead form of the home page (formSchema, useForm, onSubmit),     *)
(*   - leadService.submitLead, the data-access call that inserts one row,  *)
(*   - the Supabase configuration loader (initSupabase / getSupabase),     *)
(*   - the App component, which initializes the loader before it renders   *)
(*     the home page.                                                      *)
(*                                                                         *)
(* JavaScript strings are modelled as sequences of one-character strings,  *)
(* so that length, character classes and concatenation are computed as the *)
(* code computes them.  The JavaScript values undefined and null are the    *)
(* two distinguished tuples UNDEFINED and NULL, which are no string (their *)
(* single element has more than one character).                            *)
(***************************************************************************)
EXTENDS Integers, Sequences, FiniteSets, TLC

VARIABLES
    \* ---- home page (lead form) ----
    values,          \* react-hook-form field values of the lead form
    errors,          \* formState.errors: field -> first message ("" = none)
    isSubmitting,    \* useState(false) of Home
    posts,           \* every POST /api/leads issued, with its status
    toasts,          \* every toast shown, in order
    attempts,        \* every run of form.handleSubmit(onSubmit), in order
    isSubmitted,     \* formState.isSubmitted of the lead form
    submitDisabled,  \* disabled, as the submit buttons were last rendered
    \* ---- App ----
    appPc,           \* position of the setupSupabase effect of App
    isSupabaseInitialized,
    initError,
    reloads,         \* how often the page has been reloaded
    appLog,          \* console output of App, of its initSupabase() and of Home
    \* ---- configuration loader (module state of lib/supabase) ----
    supabaseUrl,
    supabaseAnonKey,
    supabaseClient,
    fetches,         \* every GET /api/config issued, with its status and body
    clients,         \* every client createClient returned, in order
    \* ---- lead service and the remote store ----
    calls,           \* every call of leadService.submitLead, in order
    inserts,         \* every insert issued against the leads table
    rows             \* the leads table of the remote store

formVars == <<values, errors, isSubmitting, posts, toasts, attempts,
              isSubmitted, submitDisabled>>
appVars == <<appPc, isSupabaseInitialized, initError, reloads, appLog>>
loaderVars == <<supabaseUrl, supabaseAnonKey, supabaseClient, fetches,
                clients>>
serviceVars == <<calls, inserts, rows>>
vars == <<values, errors, isSubmitting, posts, toasts, attempts, isSubmitted,
          submitDisabled,
          appPc, isSupabaseInitialized, initError, reloads, appLog,
          supabaseUrl, supabaseAnonKey, supabaseClient, fetches, clients,
          calls, inserts, rows>>

----------------------------------------------------------------------------
(* Bounds of the model.                                                    *)

\* longest mobile number string that is tried
MaxMobileLen == 11
\* most runs of handleSubmit in one behaviour
MaxSubmits == 2
\* most calls of submitLead in one behaviour
MaxCalls == 2
\* most reloads of the page in one behaviour
MaxReloads == 1
\* most runs of handleSubmit and most calls of submitLead in one behaviour
\* of the whole page
MaxPageSubmits == 1
MaxPageCalls == 1

----------------------------------------------------------------------------
(* JavaScript values.                                                      *)

UNDEFINED == <<"undefined">>
NULL == <<"null">>
EmptyStr == <<>>

IsString(v) == v /= UNDEFINED /\ v /= NULL

\* a test that only asks whether the value is there, empty or not
TruthyWhenPresent(v) == v /= UNDEFINED /\ v /= NULL

\* JavaScript truthiness of a string, undefined or null
Truthy(v) == IsString(v) /\ v /= EmptyStr

\* a || b
OrElse(a, b) == IF Truthy(a) THEN a ELSE b

Lower ==
    {"a", "b", "c", "d", "e", "f", "g", "h", "i", "j", "k", "l", "m",
     "n", "o", "p", "q", "r", "s", "t", "u", "v", "w", "x", "y", "z"}
Upper ==
    {"A", "B", "C", "D", "E", "F", "G", "H", "I", "J", "K", "L", "M",
     "N", "O", "P", "Q", "R", "S", "T", "U", "V", "W", "X", "Y", "Z"}
Letter == Lower \cup Upper
\* the regular expression class \d
Digit == {"0", "1", "2", "3", "4", "5", "6", "7", "8", "9"}
\* the regular expression class \s (the members that are tried)
Whitespace == {" ", "\t", "\n"}

AllIn(s, C) == \A i \in 1..Len(s) : s[i] \in C

\* String.prototype.trim
RECURSIVE TrimLeft(_)
TrimLeft(s) ==
    IF s /= <<>> /\ Head(s) \in Whitespace THEN TrimLeft(Tail(s)) ELSE s
RECURSIVE TrimRight(_)
TrimRight(s) ==
    IF s /= <<>> /\ s[Len(s)] \in Whitespace
    THEN TrimRight(SubSeq(s, 1, Len(s) - 1))
    ELSE s
Trim(s) == TrimRight(TrimLeft(s))

----------------------------------------------------------------------------
(* formSchema: the zod schema of the lead form.                            *)

\* the d{10} of the mobile number pattern
MobileDigits == 10
\* min(2) of parentName and city
MinNameLen == 2
\* min(1) of childGrade
MinGradeLen == 1

\* a pattern that lets digits through: /^[a-zA-Z0-9\s]+$/
RegexAlphaPlusWithDigits(s) ==
    Len(s) >= 1 /\ AllIn(s, Letter \cup Digit \cup Whitespace)

\* /^[a-zA-Z\s]+$/
RegexAlphaPlus(s) == Len(s) >= 1 /\ AllIn(s, Letter \cup Whitespace)

\* /^[a-zA-Z\s]*$/
RegexAlphaStar(s) == AllIn(s, Letter \cup Whitespace)

\* a pattern that forgets the end anchor: /^\d{10}/
RegexTenDigitsUnanchored(s) ==
    Len(s) >= MobileDigits /\ AllIn(SubSeq(s, 1, MobileDigits), Digit)

\* /^\d{10}$/
RegexTenDigits(s) == Len(s) = MobileDigits /\ AllIn(s, Digit)

\* zod's z.string().email(): local part, "@", dotted domain labels and an
\* alphabetic top-level domain of at least two letters; no leading dot and
\* no two dots in a row.
EmailLocalChars == Letter \cup Digit \cup {"_", "'", "+", "-", "."}
EmailLocalEnd == Letter \cup Digit \cup {"_", "+", "-"}
EmailLabelStart == Letter \cup Digit
EmailLabelChars == Letter \cup Digit \cup {"-"}

EmailDomainOk(d) ==
    \E j \in 1..Len(d) :
        /\ d[j] = "."
        /\ Len(d) - j >= 2
        /\ AllIn(SubSeq(d, j + 1, Len(d)), Letter)
        /\ j >= 2
        /\ d[1] \in EmailLabelStart
        /\ \A i \in 1..j : d[i] \in EmailLabelChars \cup {"."}
        /\ \A i \in 1..(j - 1) : d[i] = "." => d[i + 1] \in EmailLabelStart

RegexEmail(s) ==
    /\ Len(s) >= 1
    /\ s[1] /= "."
    /\ \A i \in 1..(Len(s) - 1) : ~(s[i] = "." /\ s[i + 1] = ".")
    /\ \E k \in 1..Len(s) :
        /\ s[k] = "@"
        /\ k >= 2
        /\ AllIn(SubSeq(s, 1, k - 1), EmailLocalChars)
        /\ s[k - 1] \in EmailLocalEnd
        /\ EmailDomainOk(SubSeq(s, k + 1, Len(s)))

FormFields ==
    {"parentName", "childGrade", "schoolName", "city", "mobileNumber", "email"}

NoError == ""

\* The first issue zod reports for each field ("" when the field passes).
\* z.string() rejects a value that is no string; .optional() lets undefined
\* through before any other check runs.
ParentNameIssue(v) ==
    IF ~IsString(v) THEN "Required"
    ELSE IF Len(v) < MinNameLen THEN "Name must be at least 2 characters"
    ELSE IF ~RegexAlphaPlus(v) THEN "Only alphabets allowed"
    ELSE NoError

ChildGradeIssue(v) ==
    IF ~IsString(v) THEN "Required"
    ELSE IF Len(v) < MinGradeLen THEN "Please select a grade"
    ELSE NoError

SchoolNameIssue(v) ==
    IF v = UNDEFINED THEN NoError
    ELSE IF ~IsString(v) THEN "Expected string"
    ELSE IF ~RegexAlphaStar(v) THEN "Only alphabets allowed"
    ELSE NoError

CityIssue(v) ==
    IF ~IsString(v) THEN "Required"
    ELSE IF Len(v) < MinNameLen THEN "City must be at least 2 characters"
    ELSE IF ~RegexAlphaPlus(v) THEN "Only alphabets allowed"
    ELSE NoError

MobileNumberIssue(v) ==
    IF ~IsString(v) THEN "Required"
    ELSE IF ~RegexTenDigits(v) THEN "Must be exactly 10 digits"
    ELSE NoError

EmailIssue(v) ==
    IF v = UNDEFINED THEN NoError
    ELSE IF ~IsString(v) THEN "Expected string"
    ELSE IF ~RegexEmail(v) THEN "Please enter a valid email address"
    ELSE NoError

\* formSchema.safeParse(data), as the zod resolver reports it: one message
\* per field
SchemaIssues(data) ==
    [parentName |-> ParentNameIssue(data.parentName),
     childGrade |-> ChildGradeIssue(data.childGrade),
     schoolName |-> SchoolNameIssue(data.schoolName),
     city |-> CityIssue(data.city),
     mobileNumber |-> MobileNumberIssue(data.mobileNumber),
     email |-> EmailIssue(data.email)]

NoIssues == [f \in FormFields |-> NoError]

SchemaAccepts(data) == SchemaIssues(data) = NoIssues

\* useForm's defaultValues
defaultValues ==
    [parentName |-> EmptyStr, childGrade |-> EmptyStr, schoolName |-> EmptyStr,
     city |-> EmptyStr, mobileNumber |-> EmptyStr, email |-> EmptyStr]


----------------------------------------------------------------------------
(* The field values that are tried.                                        *)

NameAnjali ==
    <<"A", "n", "j", "a", "l", "i", " ", "P", "a", "t", "e", "l">>
GradeClass5 ==
    <<"C", "l", "a", "s", "s", " ", "5">>
GradeLowerPrimary ==
    <<"L", "o", "w", "e", "r", " ", "p", "r", "i", "m", "a", "r", "y">>
GradeOther ==
    <<"G", "r", "a", "d", "e", " ", "9", "9">>
CityPune ==
    <<"P", "u", "n", "e">>
SchoolDPS ==
    <<"D", "P", "S">>
EmailValid ==
    <<"a", "@", "b", ".", "c", "o">>

GradePrePrimary ==
    <<"P", "r", "e", "-", "p", "r", "i", "m", "a", "r", "y">>
GradeHigherPrimary ==
    <<"H", "i", "g", "h", "e", "r", " ", "p", "r", "i", "m", "a", "r", "y">>
GradeSecondary ==
    <<"S", "e", "c", "o", "n", "d", "a", "r", "y">>
GradeHigherSecondary ==
    <<"H", "i", "g", "h", "e", "r", " ", "s", "e", "c", "o", "n", "d", "a", "r",
      "y">>
ClassPrefix ==
    <<"C", "l", "a", "s", "s", " ">>

\* the values of the SelectItems of the childGrade field
SelectGrades ==
    {GradePrePrimary, GradeLowerPrimary, GradeHigherPrimary, GradeSecondary,
     GradeHigherSecondary}

\* the gradeOptions array of Home: "Class 1" .. "Class 12"
gradeOptions ==
    {ClassPrefix \o <<d>> : d \in Digit \ {"0"}}
    \cup {ClassPrefix \o <<"1", d>> : d \in {"0", "1", "2"}}

NameSamples ==
    {EmptyStr, <<"A">>, NameAnjali, <<"A", "1">>, <<"A", "-", "b">>, <<" ", " ">>}
GradeSamples ==
    {EmptyStr, GradeLowerPrimary, GradeClass5, GradeOther}
SchoolSamples ==
    {UNDEFINED, EmptyStr, SchoolDPS, <<"D", "P", "S", "2">>, <<"S", "t", ".">>}
CitySamples ==
    {EmptyStr, CityPune, <<"P", "u", "n", "e", "1">>, <<"P", "u", "-", "n", "e">>}
EmailSamples ==
    {UNDEFINED, EmptyStr, <<" ">>, EmailValid,
     <<"a", "b", ".", "c", "o">>, <<"a", "@", "b">>}

\* the digits 9876543210 9..., of which "98765" and "9876543210" are prefixes
DigitCycle ==
    <<"9", "8", "7", "6", "5", "4", "3", "2", "1", "0">>
MobileBase(n) == [i \in 1..n |-> DigitCycle[((i - 1) % Len(DigitCycle)) + 1]]
NonDigitSamples == {"a", " "}
MobileSamples ==
    {MobileBase(n) : n \in 0..MaxMobileLen}
    \cup UNION {{[MobileBase(n) EXCEPT ![i] = c] :
                    i \in {1, n}, c \in NonDigitSamples} : n \in 1..MaxMobileLen}

FormPayloads ==
    [parentName : NameSamples, childGrade : GradeSamples,
     schoolName : SchoolSamples, city : CitySamples,
     mobileNumber : MobileSamples, email : EmailSamples]

----------------------------------------------------------------------------
(* The lead form of the home page.                                         *)

Pending(reqs) == {i \in 1..Len(reqs) : reqs[i].status = "pending"}

\* an onSubmit that issues no request while an earlier one is in flight
OnSubmitStartSingleFlight(data) ==
    IF Pending(posts) /= {}
    THEN UNCHANGED <<isSubmitting, posts, values, toasts>>
    ELSE /\ isSubmitting' = TRUE
         /\ posts' = Append(posts, [body |-> data, status |-> "pending",
                                    attempt |-> Len(attempts) + 1])
         /\ UNCHANGED <<values, toasts>>

\* onSubmit up to its await: setIsSubmitting(true), then
\* apiRequest("POST", "/api/leads", data)
OnSubmitStart(data) ==
    /\ isSubmitting' = TRUE
    /\ posts' = Append(posts, [body |-> data, status |-> "pending",
                               attempt |-> Len(attempts) + 1])
    /\ UNCHANGED <<values, toasts>>

\* the fields the sticky form renders; the main form renders all six
StickyFormFields == {"parentName", "mobileNumber", "city", "childGrade"}

\* a submit event of the main or of the sticky form, which the browser
\* dispatches only while the submit button is not disabled, handled by
\* form.handleSubmit(onSubmit): the zod resolver validates the current
\* values; onSubmit runs only when it reports no issue, otherwise the issues
\* become formState.errors.
handleSubmit ==
    /\ Len(attempts) < MaxSubmits
    /\ ~submitDisabled
    /\ LET issues == SchemaIssues(values) IN
        /\ attempts' = Append(attempts, [data |-> values, issues |-> issues])
        /\ errors' = issues
        /\ isSubmitted' = TRUE
        /\ IF issues = NoIssues
           THEN OnSubmitStart(values)
           ELSE UNCHANGED <<values, isSubmitting, posts, toasts>>
    /\ UNCHANGED <<submitDisabled, loaderVars, serviceVars, appVars>>

\* onSubmit after apiRequest resolved: success toast, form.reset(), and the
\* finally block's setIsSubmitting(false)
PostSucceeds(i) ==
    /\ i \in Pending(posts)
    /\ posts' = [posts EXCEPT ![i].status = "ok"]
    /\ toasts' = Append(toasts, "Form submitted successfully!")
    /\ values' = defaultValues
    /\ errors' = NoIssues
    /\ isSubmitted' = FALSE
    /\ isSubmitting' = FALSE
    /\ UNCHANGED <<attempts, submitDisabled, loaderVars, serviceVars, appVars>>

\* an onSubmit that resets the form after a rejected request as well
PostFailsResetsForm(i) ==
    /\ i \in Pending(posts)
    /\ posts' = [posts EXCEPT ![i].status = "failed"]
    /\ toasts' = Append(toasts, "Error submitting form")
    /\ values' = defaultValues
    /\ errors' = NoIssues
    /\ isSubmitted' = FALSE
    /\ isSubmitting' = FALSE
    /\ UNCHANGED <<attempts, submitDisabled, loaderVars, serviceVars, appVars>>

\* onSubmit after apiRequest rejected: error toast, then the finally block
PostFails(i) ==
    /\ i \in Pending(posts)
    /\ posts' = [posts EXCEPT ![i].status = "failed"]
    /\ toasts' = Append(toasts, "Error submitting form")
    /\ isSubmitting' = FALSE
    /\ UNCHANGED <<values, errors, attempts, isSubmitted, submitDisabled,
                   loaderVars, serviceVars, appVars>>

\* React renders Home again: both submit buttons take disabled={isSubmitting}
RenderHome ==
    /\ submitDisabled /= isSubmitting
    /\ submitDisabled' = isSubmitting
    /\ UNCHANGED <<values, errors, isSubmitting, posts, toasts, attempts,
                   isSubmitted, loaderVars, serviceVars, appVars>>

----------------------------------------------------------------------------
(* Values of the configuration endpoint, the clock and the store.          *)

UrlSample ==
    <<"h", "t", "t", "p", "s", ":", "/", "/", "d", "b", ".", "c", "o">>
KeySample ==
    <<"a", "n", "o", "n">>

\* the JSON bodies GET /api/config may answer with
ConfigSamples ==
    {[supabaseUrl |-> UrlSample, supabaseAnonKey |-> KeySample],
     [supabaseUrl |-> UNDEFINED, supabaseAnonKey |-> KeySample],
     [supabaseUrl |-> EmptyStr, supabaseAnonKey |-> KeySample],
     [supabaseUrl |-> UrlSample, supabaseAnonKey |-> UNDEFINED],
     [supabaseUrl |-> UrlSample, supabaseAnonKey |-> EmptyStr]}

\* new Date().toISOString() as read by the n-th call: the readings of the
\* browser's clock are told apart by the call that reads them
ClientNow(n) == <<"t">> \o MobileBase(n)
\* the store's own clock, used for a row that comes without created_at
ServerTime == <<"s", "1">>

MsgConfigFetch ==
    <<"F", "a", "i", "l", "e", "d", " ", "t", "o", " ", "f", "e", "t", "c", "h",
      " ", "S", "u", "p", "a", "b", "a", "s", "e", " ", "c", "o", "n", "f", "i",
      "g", "u", "r", "a", "t", "i", "o", "n">>
MsgNoCredentials ==
    <<"S", "u", "p", "a", "b", "a", "s", "e", " ", "c", "r", "e", "d", "e", "n",
      "t", "i", "a", "l", "s", " ", "n", "o", "t", " ", "f", "o", "u", "n", "d",
      " ", "i", "n", " ", "s", "e", "r", "v", "e", "r", " ", "c", "o", "n", "f",
      "i", "g">>
MsgNoData ==
    <<"F", "a", "i", "l", "e", "d", " ", "t", "o", " ", "c", "r", "e", "a", "t",
      "e", " ", "l", "e", "a", "d", ":", " ", "N", "o", " ", "d", "a", "t", "a",
      " ", "r", "e", "t", "u", "r", "n", "e", "d">>
MsgSupabasePrefix ==
    <<"S", "u", "p", "a", "b", "a", "s", "e", " ", "e", "r", "r", "o", "r", ":",
      " ">>
\* what fetch rejects with when the endpoint is unreachable
MsgNetwork ==
    <<"F", "a", "i", "l", "e", "d", " ", "t", "o", " ", "f", "e", "t", "c", "h">>
\* what response.json() rejects with when the body is no JSON
MsgJson ==
    <<"U", "n", "e", "x", "p", "e", "c", "t", "e", "d", " ", "t", "o", "k", "e",
      "n">>

ErrMessage ==
    <<"d", "u", "p", "l", "i", "c", "a", "t", "e", " ", "k", "e", "y">>
ErrDetails ==
    <<"K", "e", "y", " ", "e", "x", "i", "s", "t", "s">>
ErrHint ==
    <<"R", "e", "t", "r", "y", " ", "l", "a", "t", "e", "r">>
ErrCode ==
    <<"2", "3", "5", "0", "5">>
ErrMessageDenied ==
    <<"d", "e", "n", "i", "e", "d">>
ErrCodeDenied ==
    <<"4", "2", "5", "0", "1">>

\* the error objects the store may answer an insert with
StoreErrors ==
    {[message |-> ErrMessage, details |-> ErrDetails, hint |-> ErrHint,
      code |-> ErrCode],
     [message |-> ErrMessageDenied, details |-> NULL, hint |-> NULL,
      code |-> ErrCodeDenied]}

\* the payloads submitLead is called with
ServiceLead(schoolName, mobileNumber, email) ==
    [parentName |-> NameAnjali, childGrade |-> GradeClass5,
     schoolName |-> schoolName, city |-> CityPune,
     mobileNumber |-> mobileNumber, email |-> email]
ServicePayloads ==
    {ServiceLead(SchoolDPS, MobileBase(MobileDigits), EmailValid),
     ServiceLead(UNDEFINED, MobileBase(MobileDigits), EmptyStr),
     ServiceLead(EmptyStr, MobileBase(MobileDigits), UNDEFINED),
     ServiceLead(<<" ", " ">>, MobileBase(MobileDigits), <<" ">>),
     ServiceLead(SchoolDPS, MobileBase(5), EmailValid)}

----------------------------------------------------------------------------
(* The configuration loader and the lead service.                          *)

\* createClient(supabaseUrl, supabaseAnonKey): a new client object each
\* time; n tells the objects apart
\* a createClient that drops the key it is given
createClientWithoutKey(n, url, key) == <<"SupabaseClient", n, url, EmptyStr>>
\* a createClient that hands out one shared client
createClientShared(n, url, key) == <<"SupabaseClient", 1, url, key>>
createClient(n, url, key) == <<"SupabaseClient", n, url, key>>

\* a mapping that forgets "|| null" for the school name
ToRowKeepsEmptySchool(leadData, now) ==
    [parent_name |-> leadData.parentName,
     child_grade |-> leadData.childGrade,
     school_name |-> IF IsString(leadData.schoolName)
                     THEN leadData.schoolName
                     ELSE NULL,
     city |-> leadData.city,
     mobile_number |-> leadData.mobileNumber,
     email |-> IF Truthy(leadData.email) /\ Trim(leadData.email) /= EmptyStr
               THEN leadData.email
               ELSE NULL,
     created_at |-> now]

\* the row submitLead hands to insert
ToRow(leadData, now) ==
    [parent_name |-> leadData.parentName,
     child_grade |-> leadData.childGrade,
     school_name |-> OrElse(leadData.schoolName, NULL),
     city |-> leadData.city,
     mobile_number |-> leadData.mobileNumber,
     email |-> IF Truthy(leadData.email) /\ Trim(leadData.email) /= EmptyStr
               THEN leadData.email
               ELSE NULL,
     created_at |-> now]

\* a mapping that takes the mobile number from the wrong column
FromRowCityForMobile(data) ==
    [id |-> data.id,
     parentName |-> data.parent_name,
     childGrade |-> data.child_grade,
     schoolName |-> OrElse(data.school_name, UNDEFINED),
     city |-> data.city,
     mobileNumber |-> data.city,
     email |-> OrElse(data.email, UNDEFINED),
     createdAt |-> data.created_at]

\* a mapping that forgets "|| undefined" for the optional columns
FromRowKeepsNull(data) ==
    [id |-> data.id,
     parentName |-> data.parent_name,
     childGrade |-> data.child_grade,
     schoolName |-> data.school_name,
     city |-> data.city,
     mobileNumber |-> data.mobile_number,
     email |-> data.email,
     createdAt |-> data.created_at]

\* the Lead submitLead returns for the row the store answered with
FromRow(data) ==
    [id |-> data.id,
     parentName |-> data.parent_name,
     childGrade |-> data.child_grade,
     schoolName |-> OrElse(data.school_name, UNDEFINED),
     city |-> data.city,
     mobileNumber |-> data.mobile_number,
     email |-> OrElse(data.email, UNDEFINED),
     createdAt |-> data.created_at]

\* an Error that leaves the hint out of its message
SupabaseErrorWithoutHint(error) ==
    [message |-> MsgSupabasePrefix \o error.message \o <<".", " ">>]

\* the Error submitLead throws for an error object of the store
SupabaseError(error) ==
    [message |-> MsgSupabasePrefix \o error.message \o <<".", " ">>
                 \o OrElse(error.hint, EmptyStr)]

\* console.error('Supabase error details:', {...})
ErrorDetailsLog(error) ==
    [label |-> "Supabase error details:",
     message |-> error.message, details |-> error.details,
     hint |-> error.hint, code |-> error.code]

\* the identifier the store gives its n-th row
\* a store that hands every row the same id
StoreIdOfFirstRow(n) == <<"r", "o", "w", "-">> \o MobileBase(1)
StoreId(n) == <<"r", "o", "w", "-">> \o MobileBase(n)

\* the leads table stores the row it is handed: it assigns the id, and it
\* assigns created_at only when the row brings none
StoredRow(row, n) ==
    [id |-> StoreId(n),
     parent_name |-> row.parent_name,
     child_grade |-> row.child_grade,
     school_name |-> row.school_name,
     city |-> row.city,
     mobile_number |-> row.mobile_number,
     email |-> row.email,
     created_at |-> IF "created_at" \in DOMAIN row /\ row.created_at /= NULL
                    THEN row.created_at
                    ELSE ServerTime]

\* a call that issues its insert again, as an automatic retry would
IssueInsertTwice(i, leadData, client, now) ==
    inserts' = inserts \o
        <<[call |-> i, client |-> client, row |-> ToRow(leadData, now),
           status |-> "pending", data |-> NULL, error |-> NULL],
          [call |-> i, client |-> client, row |-> ToRow(leadData, now),
           status |-> "pending", data |-> NULL, error |-> NULL]>>

\* supabase.from('leads').insert([row]).select().single(), issued by call i
IssueInsert(i, leadData, client, now) ==
    inserts' = Append(inserts, [call |-> i, client |-> client,
                                row |-> ToRow(leadData, now),
                                status |-> "pending",
                                data |-> NULL, error |-> NULL])

\* fetch('/api/config'), issued for call i; once response.json() has
\* resolved the status is "parsed" and body is what it resolved with
NewFetch(i) == [call |-> i, status |-> "pending", body |-> NULL]

NewCall(leadData, pc) ==
    [leadData |-> leadData, pc |-> pc, result |-> NULL, error |-> NULL,
     log |-> <<>>]

\* a catch block that throws a new error in place of the one it caught
ThrewWrapped(c, error, logged) ==
    [c EXCEPT !.pc = "threw",
              !.error = [message |-> MsgSupabasePrefix \o error.message],
              !.log = c.log \o logged
                      \o <<[label |-> "Error submitting lead:",
                            message |-> error.message]>>]

\* the catch block of submitLead: log and rethrow
Threw(c, error, logged) ==
    [c EXCEPT !.pc = "threw", !.error = error,
              !.log = c.log \o logged
                      \o <<[label |-> "Error submitting lead:",
                            message |-> error.message]>>]

\* the catch block of initSupabase: log and rethrow
InitFailedLog(error) ==
    [label |-> "Error initializing Supabase client:",
     message |-> error.message]

\* a submitLead whose getSupabase() ignores the cached client and
\* initializes anew on every call
submitLeadAlwaysInit(leadData) ==
    /\ Len(calls) < MaxCalls
    /\ calls' = Append(calls, NewCall(leadData, "config"))
    /\ fetches' = Append(fetches, NewFetch(Len(calls) + 1))
    /\ UNCHANGED <<supabaseUrl, supabaseAnonKey, supabaseClient, clients,
                   inserts, rows, formVars, appVars>>

\* leadService.submitLead(leadData) up to its first network call:
\* getSupabase() answers with the cached client, or initSupabase() fetches
\* the configuration first
submitLead(leadData) ==
    /\ Len(calls) < MaxCalls
    /\ LET i == Len(calls) + 1 IN
        IF supabaseClient /= NULL
        THEN /\ calls' = Append(calls, NewCall(leadData, "insert"))
             /\ IssueInsert(i, leadData, supabaseClient, ClientNow(i))
             /\ UNCHANGED fetches
        ELSE /\ calls' = Append(calls, NewCall(leadData, "config"))
             /\ fetches' = Append(fetches, NewFetch(i))
             /\ UNCHANGED inserts
    /\ UNCHANGED <<supabaseUrl, supabaseAnonKey, supabaseClient, clients, rows,
                   formVars, appVars>>

FetchOf(i) == CHOOSE k \in 1..Len(fetches) : fetches[k].call = i

\* a failing fetch that also drops the cached client
ConfigFailsClearsCache(i, error) ==
    /\ i \in 1..Len(calls)
    /\ calls[i].pc = "config"
    /\ fetches' = [fetches EXCEPT ![FetchOf(i)].status = "failed"]
    /\ calls' = [calls EXCEPT ![i] = Threw(@, error, <<InitFailedLog(error)>>)]
    /\ supabaseClient' = NULL
    /\ UNCHANGED <<supabaseUrl, supabaseAnonKey, clients, inserts, rows,
                   formVars, appVars>>

\* fetch('/api/config') rejects, or answers with a response that is not ok
ConfigFails(i, error) ==
    /\ i \in 1..Len(calls)
    /\ calls[i].pc = "config"
    /\ fetches' = [fetches EXCEPT ![FetchOf(i)].status = "failed"]
    /\ calls' = [calls EXCEPT ![i] = Threw(@, error, <<InitFailedLog(error)>>)]
    /\ UNCHANGED <<supabaseUrl, supabaseAnonKey, supabaseClient, clients,
                   inserts, rows, formVars, appVars>>

\* fetch('/api/config') answers with an ok response
ConfigResponds(i) ==
    /\ i \in 1..Len(calls)
    /\ calls[i].pc = "config"
    /\ fetches' = [fetches EXCEPT ![FetchOf(i)].status = "ok"]
    /\ calls' = [calls EXCEPT ![i].pc = "json"]
    /\ UNCHANGED <<supabaseUrl, supabaseAnonKey, supabaseClient, clients,
                   inserts, rows, formVars, appVars>>

\* response.json() rejects
JsonFails(i) ==
    /\ i \in 1..Len(calls)
    /\ calls[i].pc = "json"
    /\ LET error == [message |-> MsgJson] IN
        calls' = [calls EXCEPT ![i] = Threw(@, error, <<InitFailedLog(error)>>)]
    /\ UNCHANGED <<loaderVars, inserts, rows, formVars, appVars>>

\* response.json() resolves with config: the rest of initSupabase, and
\* submitLead up to its insert
JsonResolves(i, config) ==
    /\ i \in 1..Len(calls)
    /\ calls[i].pc = "json"
    /\ IF ~Truthy(config.supabaseUrl) \/ ~Truthy(config.supabaseAnonKey)
       THEN /\ LET error == [message |-> MsgNoCredentials] IN
                calls' = [calls EXCEPT
                            ![i] = Threw(@, error, <<InitFailedLog(error)>>)]
            /\ UNCHANGED <<supabaseUrl, supabaseAnonKey, supabaseClient,
                           clients, inserts>>
       ELSE LET client == createClient(FetchOf(i), config.supabaseUrl,
                                       config.supabaseAnonKey) IN
            /\ supabaseUrl' = config.supabaseUrl
            /\ supabaseAnonKey' = config.supabaseAnonKey
            /\ supabaseClient' = client
            /\ clients' = Append(clients, client)
            /\ calls' = [calls EXCEPT
                    ![i].pc = "insert",
                    ![i].log = @ \o <<[label |->
                        "Supabase client initialized successfully"]>>]
            /\ IssueInsert(i, calls[i].leadData, client, ClientNow(i))
    /\ fetches' = [fetches EXCEPT ![FetchOf(i)].status = "parsed",
                                  ![FetchOf(i)].body = config]
    /\ UNCHANGED <<rows, formVars, appVars>>

InsertOf(i) == CHOOSE k \in 1..Len(inserts) : inserts[k].call = i

\* an insert that overwrites the first row of the table once there is one
InsertSucceedsUpserts(i) ==
    /\ i \in 1..Len(calls)
    /\ calls[i].pc = "insert"
    /\ LET k == InsertOf(i)
           data == StoredRow(inserts[k].row, Len(rows) + 1)
       IN
        /\ rows' = IF rows = <<>> THEN <<data>> ELSE [rows EXCEPT ![1] = data]
        /\ inserts' = [inserts EXCEPT ![k].status = "ok", ![k].data = data]
        /\ calls' = [calls EXCEPT ![i].pc = "returned",
                                  ![i].result = FromRow(data)]
    /\ UNCHANGED <<loaderVars, formVars, appVars>>

\* the store answers the insert with the stored row
InsertSucceeds(i) ==
    /\ i \in 1..Len(calls)
    /\ calls[i].pc = "insert"
    /\ LET k == InsertOf(i)
           data == StoredRow(inserts[k].row, Len(rows) + 1)
       IN
        /\ rows' = Append(rows, data)
        /\ inserts' = [inserts EXCEPT ![k].status = "ok", ![k].data = data]
        /\ calls' = [calls EXCEPT ![i].pc = "returned",
                                  ![i].result = FromRow(data)]
    /\ UNCHANGED <<loaderVars, formVars, appVars>>

\* the store answers the insert with an error object
InsertFails(i, error) ==
    /\ i \in 1..Len(calls)
    /\ calls[i].pc = "insert"
    /\ inserts' = [inserts EXCEPT ![InsertOf(i)].status = "failed",
                                  ![InsertOf(i)].error = error]
    /\ calls' = [calls EXCEPT
                    ![i] = Threw(@, SupabaseError(error),
                                 <<ErrorDetailsLog(error)>>)]
    /\ UNCHANGED <<rows, loaderVars, formVars, appVars>>

\* a submitLead without the "if (!data)" test: it maps the missing row
InsertNoDataReturnsLead(i) ==
    /\ i \in 1..Len(calls)
    /\ calls[i].pc = "insert"
    /\ inserts' = [inserts EXCEPT ![InsertOf(i)].status = "nodata"]
    /\ calls' = [calls EXCEPT
                    ![i].pc = "returned",
                    ![i].result = [id |-> UNDEFINED,
                                   parentName |-> UNDEFINED,
                                   childGrade |-> UNDEFINED,
                                   schoolName |-> UNDEFINED,
                                   city |-> UNDEFINED,
                                   mobileNumber |-> UNDEFINED,
                                   email |-> UNDEFINED,
                                   createdAt |-> UNDEFINED]]
    /\ UNCHANGED <<rows, loaderVars, formVars, appVars>>

\* the store answers the insert with neither an error nor a row
InsertNoData(i) ==
    /\ i \in 1..Len(calls)
    /\ calls[i].pc = "insert"
    /\ inserts' = [inserts EXCEPT ![InsertOf(i)].status = "nodata"]
    /\ calls' = [calls EXCEPT ![i] = Threw(@, [message |-> MsgNoData], <<>>)]
    /\ UNCHANGED <<rows, loaderVars, formVars, appVars>>

----------------------------------------------------------------------------
(* The App component: it initializes the loader in an effect and renders   *)
(* the home page only once that has succeeded.                             *)

\* the caller recorded for the fetch that App's own initSupabase() issues
AppCall == 0

MsgInitFailed ==
    <<"F", "a", "i", "l", "e", "d", " ", "t", "o", " ", "i", "n", "i", "t", "i",
      "a", "l", "i", "z", "e", " ", "b", "a", "c", "k", "e", "n", "d", " ", "s",
      "e", "r", "v", "i", "c", "e", "s">>

\* an App without the return of the error view
AppViewWithoutError ==
    IF ~isSupabaseInitialized /\ initError = NULL THEN "loading" ELSE "app"

\* which of its three returns App renders
AppView ==
    IF ~isSupabaseInitialized /\ initError = NULL THEN "loading"
    ELSE IF initError /= NULL THEN "error"
    ELSE "app"

\* Router -> Home, and with it the lead form, is part of the last return only
HomeRendered == AppView = "app"

\* a setupSupabase that does not await initSupabase() before
\* setSupabaseInitialized(true)
setupSupabaseNotAwaited ==
    /\ appPc = "mount"
    /\ appPc' = "config"
    /\ isSupabaseInitialized' = TRUE
    /\ fetches' = Append(fetches, NewFetch(AppCall))
    /\ UNCHANGED <<initError, reloads, appLog,
                   supabaseUrl, supabaseAnonKey, supabaseClient, clients,
                   serviceVars, formVars>>

\* the effect of App runs setupSupabase, which calls initSupabase():
\* fetch('/api/config') is issued
setupSupabase ==
    /\ appPc = "mount"
    /\ appPc' = "config"
    /\ fetches' = Append(fetches, NewFetch(AppCall))
    /\ UNCHANGED <<isSupabaseInitialized, initError, reloads, appLog,
                   supabaseUrl, supabaseAnonKey, supabaseClient, clients,
                   serviceVars, formVars>>

\* the catch block of initSupabase, which logs and rethrows, and then the
\* catch block of setupSupabase
SetupFailed(error) ==
    /\ appPc' = "failed"
    /\ initError' = MsgInitFailed
    /\ appLog' = appLog \o <<InitFailedLog(error),
                              [label |-> "Failed to initialize Supabase:",
                               message |-> error.message]>>
    /\ UNCHANGED <<isSupabaseInitialized, reloads>>

\* App's fetch('/api/config') rejects, or answers with a response not ok
AppConfigFails(error) ==
    /\ appPc = "config"
    /\ fetches' = [fetches EXCEPT ![FetchOf(AppCall)].status = "failed"]
    /\ SetupFailed(error)
    /\ UNCHANGED <<supabaseUrl, supabaseAnonKey, supabaseClient, clients,
                   serviceVars, formVars>>

\* App's fetch('/api/config') answers with an ok response
AppConfigResponds ==
    /\ appPc = "config"
    /\ appPc' = "json"
    /\ fetches' = [fetches EXCEPT ![FetchOf(AppCall)].status = "ok"]
    /\ UNCHANGED <<isSupabaseInitialized, initError, reloads, appLog,
                   supabaseUrl, supabaseAnonKey, supabaseClient, clients,
                   serviceVars, formVars>>

\* response.json() rejects in App's initSupabase()
AppJsonFails ==
    /\ appPc = "json"
    /\ SetupFailed([message |-> MsgJson])
    /\ UNCHANGED <<loaderVars, serviceVars, formVars>>

\* response.json() resolves with config: the rest of initSupabase, and
\* setSupabaseInitialized(true)
AppJsonResolves(config) ==
    /\ appPc = "json"
    /\ IF ~Truthy(config.supabaseUrl) \/ ~Truthy(config.supabaseAnonKey)
       THEN /\ SetupFailed([message |-> MsgNoCredentials])
            /\ UNCHANGED <<supabaseUrl, supabaseAnonKey, supabaseClient,
                           clients>>
       ELSE LET client == createClient(FetchOf(AppCall), config.supabaseUrl,
                                       config.supabaseAnonKey) IN
            /\ supabaseUrl' = config.supabaseUrl
            /\ supabaseAnonKey' = config.supabaseAnonKey
            /\ supabaseClient' = client
            /\ clients' = Append(clients, client)
            /\ appPc' = "done"
            /\ isSupabaseInitialized' = TRUE
            /\ appLog' = Append(appLog, [label |->
                            "Supabase client initialized successfully"])
            /\ UNCHANGED <<initError, reloads>>
    /\ fetches' = [fetches EXCEPT ![FetchOf(AppCall)].status = "parsed",
                                  ![FetchOf(AppCall)].body = config]
    /\ UNCHANGED <<serviceVars, formVars>>

\* the user edits the fields of the rendered form; once the form has been
\* submitted the resolver re-validates on change
FillForm(data) ==
    /\ HomeRendered
    /\ values /= data
    /\ values' = data
    /\ errors' = IF isSubmitted THEN SchemaIssues(data) ELSE errors
    /\ UNCHANGED <<isSubmitting, posts, toasts, attempts, isSubmitted,
                   submitDisabled, loaderVars, serviceVars, appVars>>

\* the user submits the rendered form
HomeSubmit == HomeRendered /\ handleSubmit

----------------------------------------------------------------------------
(* Initial states.                                                         *)

InitLoader ==
    /\ supabaseUrl = EmptyStr
    /\ supabaseAnonKey = EmptyStr
    /\ supabaseClient = NULL
    /\ fetches = <<>>
    /\ clients = <<>>

\* App as mounted: the loading view, its effect not yet run
InitApp ==
    /\ appPc = "mount"
    /\ isSupabaseInitialized = FALSE
    /\ initError = NULL
    /\ reloads = 0
    /\ appLog = <<>>

\* App after its effect succeeded: the loader holds the client it created
InitAppReady ==
    /\ appPc = "done"
    /\ isSupabaseInitialized = TRUE
    /\ initError = NULL
    /\ reloads = 0
    /\ appLog = <<[label |-> "Supabase client initialized successfully"]>>
    /\ supabaseUrl = UrlSample
    /\ supabaseAnonKey = KeySample
    /\ supabaseClient = createClient(1, UrlSample, KeySample)
    /\ fetches = <<[call |-> AppCall, status |-> "parsed",
                     body |-> [supabaseUrl |-> UrlSample,
                               supabaseAnonKey |-> KeySample]]>>
    /\ clients = <<createClient(1, UrlSample, KeySample)>>

InitService ==
    /\ calls = <<>>
    /\ inserts = <<>>
    /\ rows = <<>>

\* the home page with field values in the form, as typed, pasted or set
\* through the form's API
InitForm ==
    /\ values \in FormPayloads
    /\ errors = NoIssues
    /\ isSubmitting = FALSE
    /\ posts = <<>>
    /\ toasts = <<>>
    /\ attempts = <<>>
    /\ isSubmitted = FALSE
    /\ submitDisabled = FALSE
    /\ InitAppReady
    /\ InitService

NextForm ==
    \/ handleSubmit
    \/ RenderHome
    \/ \E i \in 1..Len(posts) : PostSucceeds(i)
    \/ \E i \in 1..Len(posts) : PostFails(i)

SpecForm == InitForm /\ [][NextForm]_vars

\* the page as loaded: the form holds its default values, nothing is cached
Init ==
    /\ values = defaultValues
    /\ errors = NoIssues
    /\ isSubmitting = FALSE
    /\ posts = <<>>
    /\ toasts = <<>>
    /\ attempts = <<>>
    /\ isSubmitted = FALSE
    /\ submitDisabled = FALSE
    /\ InitApp
    /\ InitLoader
    /\ InitService

ConfigErrors == {[message |-> MsgNetwork], [message |-> MsgConfigFetch]}

Next ==
    \/ \E leadData \in ServicePayloads : submitLead(leadData)
    \/ \E i \in 1..Len(calls), error \in ConfigErrors : ConfigFails(i, error)
    \/ \E i \in 1..Len(calls) : ConfigResponds(i)
    \/ \E i \in 1..Len(calls) : JsonFails(i)
    \/ \E i \in 1..Len(calls), config \in ConfigSamples : JsonResolves(i, config)
    \/ \E i \in 1..Len(calls) : InsertSucceeds(i)
    \/ \E i \in 1..Len(calls), error \in StoreErrors : InsertFails(i, error)
    \/ \E i \in 1..Len(calls) : InsertNoData(i)

Spec == Init /\ [][Next]_vars

\* the "Try Again" button of the error view: window.location.reload() starts
\* the page anew; only the remote store keeps its contents
TryAgain ==
    /\ AppView = "error"
    /\ reloads < MaxReloads
    /\ reloads' = reloads + 1
    /\ values' = defaultValues
    /\ errors' = NoIssues
    /\ isSubmitting' = FALSE
    /\ posts' = <<>>
    /\ toasts' = <<>>
    /\ attempts' = <<>>
    /\ isSubmitted' = FALSE
    /\ submitDisabled' = FALSE
    /\ appLog' = <<>>
    /\ appPc' = "mount"
    /\ isSupabaseInitialized' = FALSE
    /\ initError' = NULL
    /\ supabaseUrl' = EmptyStr
    /\ supabaseAnonKey' = EmptyStr
    /\ supabaseClient' = NULL
    /\ fetches' = <<>>
    /\ clients' = <<>>
    /\ calls' = <<>>
    /\ inserts' = <<>>
    /\ UNCHANGED rows

\* what the user types into the form of the whole page, and what the lead
\* service is called with there
PageFormPayloads ==
    {[parentName |-> NameAnjali, childGrade |-> GradeLowerPrimary,
      schoolName |-> SchoolDPS, city |-> CityPune,
      mobileNumber |-> MobileBase(MobileDigits), email |-> EmailValid],
     [parentName |-> NameAnjali, childGrade |-> GradeLowerPrimary,
      schoolName |-> EmptyStr, city |-> CityPune,
      mobileNumber |-> MobileBase(5), email |-> EmptyStr]}
PageServicePayloads ==
    {ServiceLead(SchoolDPS, MobileBase(MobileDigits), EmailValid)}

\* App and the lead form it renders, with the reload of the error view
NextApp ==
    \/ setupSupabase
    \/ \E error \in ConfigErrors : AppConfigFails(error)
    \/ AppConfigResponds
    \/ AppJsonFails
    \/ \E config \in ConfigSamples : AppJsonResolves(config)
    \/ TryAgain
    \/ \E data \in PageFormPayloads : FillForm(data)
    \/ HomeSubmit
    \/ RenderHome
    \/ \E i \in 1..Len(posts) : PostSucceeds(i)
    \/ \E i \in 1..Len(posts) : PostFails(i)

SpecApp == Init /\ [][NextApp]_vars

\* the whole page: App, the lead form it renders, and the lead service
\* called while the page lives
NextPage ==
    \/ setupSupabase
    \/ \E error \in ConfigErrors : AppConfigFails(error)
    \/ AppConfigResponds
    \/ AppJsonFails
    \/ \E config \in ConfigSamples : AppJsonResolves(config)
    \/ \E data \in PageFormPayloads : FillForm(data)
    \/ Len(attempts) < MaxPageSubmits /\ HomeSubmit
    \/ RenderHome
    \/ \E i \in 1..Len(posts) : PostSucceeds(i)
    \/ \E i \in 1..Len(posts) : PostFails(i)
    \/ \E leadData \in PageServicePayloads :
            Len(calls) < MaxPageCalls /\ submitLead(leadData)
    \/ \E i \in 1..Len(calls), error \in ConfigErrors : ConfigFails(i, error)
    \/ \E i \in 1..Len(calls) : ConfigResponds(i)
    \/ \E i \in 1..Len(calls) : JsonFails(i)
    \/ \E i \in 1..Len(calls), config \in ConfigSamples : JsonResolves(i, config)
    \/ \E i \in 1..Len(calls) : InsertSucceeds(i)
    \/ \E i \in 1..Len(calls), error \in StoreErrors : InsertFails(i, error)
    \/ \E i \in 1..Len(calls) : InsertNoData(i)

SpecPage == Init /\ [][NextPage]_vars

\* what GET /api/config answers the initializations with: the credentials
\* may have been replaced between two fetches
LoaderConfigSamples ==
    {[supabaseUrl |-> UrlSample, supabaseAnonKey |-> KeySample],
     [supabaseUrl |-> UrlSample \o <<"2">>,
      supabaseAnonKey |-> KeySample \o <<"2">>],
     [supabaseUrl |-> UrlSample, supabaseAnonKey |-> UNDEFINED],
     [supabaseUrl |-> EmptyStr, supabaseAnonKey |-> KeySample]}

\* the loader with all its callers: App's effect and calls of submitLead
NextLoader ==
    \/ setupSupabase
    \/ \E error \in ConfigErrors : AppConfigFails(error)
    \/ AppConfigResponds
    \/ AppJsonFails
    \/ \E config \in LoaderConfigSamples : AppJsonResolves(config)
    \/ \E leadData \in PageServicePayloads :
            Len(calls) < MaxPageCalls /\ submitLead(leadData)
    \/ \E i \in 1..Len(calls), error \in ConfigErrors : ConfigFails(i, error)
    \/ \E i \in 1..Len(calls) : ConfigResponds(i)
    \/ \E i \in 1..Len(calls) : JsonFails(i)
    \/ \E i \in 1..Len(calls), config \in LoaderConfigSamples :
            JsonResolves(i, config)
    \/ \E i \in 1..Len(calls) : InsertSucceeds(i)
    \/ \E i \in 1..Len(calls), error \in StoreErrors : InsertFails(i, error)
    \/ \E i \in 1..Len(calls) : InsertNoData(i)

SpecLoader == Init /\ [][NextLoader]_vars

\* the home page in use: App has initialized the loader, the user has filled
\* the form, and the lead service is called while submissions are under way
InitHome ==
    /\ values \in PageFormPayloads
    /\ errors = NoIssues
    /\ isSubmitting = FALSE
    /\ posts = <<>>
    /\ toasts = <<>>
    /\ attempts = <<>>
    /\ isSubmitted = FALSE
    /\ submitDisabled = FALSE
    /\ InitAppReady
    /\ InitService

NextHome ==
    \/ handleSubmit
    \/ RenderHome
    \/ \E i \in 1..Len(posts) : PostSucceeds(i)
    \/ \E i \in 1..Len(posts) : PostFails(i)
    \/ \E leadData \in PageServicePayloads : submitLead(leadData)
    \/ \E i \in 1..Len(calls) : InsertSucceeds(i)
    \/ \E i \in 1..Len(calls), error \in StoreErrors : InsertFails(i, error)
    \/ \E i \in 1..Len(calls) : InsertNoData(i)

SpecHome == InitHome /\ [][NextHome]_vars

----------------------------------------------------------------------------
(* Vocabulary of the properties.                                           *)

IsAlphaSpace(v) ==
    IsString(v) /\ \A i \in 1..Len(v) : v[i] \in Letter \cup Whitespace

HasDigitOrSymbol(v) ==
    IsString(v) /\ \E i \in 1..Len(v) : v[i] \notin Letter \cup Whitespace

IsTenDigitString(v) ==
    IsString(v) /\ Len(v) = 10 /\ \A i \in 1..Len(v) : v[i] \in Digit

IsAbsent(v) == v = UNDEFINED \/ v = EmptyStr

\* the field rules of the data model: required alphabetic names, a grade,
\* a ten digit mobile number, optional school name and optional email
LeadRulesHold(p) ==
    /\ IsAlphaSpace(p.parentName) /\ Len(p.parentName) >= 1
    /\ Truthy(p.childGrade)
    /\ p.schoolName = UNDEFINED \/ IsAlphaSpace(p.schoolName)
    /\ IsAlphaSpace(p.city) /\ Len(p.city) >= 1
    /\ IsTenDigitString(p.mobileNumber)
    /\ IsAbsent(p.email) \/ RegexEmail(p.email)

\* the POST requests issued by the a-th run of handleSubmit
PostsOf(a) == {k \in 1..Len(posts) : posts[k].attempt = a}

InsertsOf(i) == {k \in 1..Len(inserts) : inserts[k].call = i}

Returned == {i \in 1..Len(calls) : calls[i].pc = "returned"}

\* an optional input and the optional field of the result correspond
SameOptional(in, out) ==
    IF IsAbsent(in) THEN out = UNDEFINED ELSE out = in

IsInfix(a, b) ==
    \E k \in 0..(Len(b) - Len(a)) : SubSeq(b, k + 1, k + Len(a)) = a

\* the thrown error holds x: in its message text or as one of its fields
Carries(err, x) ==
    IsInfix(x, err.message) \/ \E f \in DOMAIN err : err[f] = x

\* the config fetches that call i of submitLead issued
FetchesOf(i) == {k \in 1..Len(fetches) : fetches[k].call = i}

\* the clients that were created from the response to fetch k
ClientsOf(k) == {n \in 1..Len(clients) : clients[n][2] = k}

\* a credential of the configuration is there and is not empty
IsPresent(v) == IsString(v) /\ Len(v) > 0

\* the POST requests that have been answered
Settled(reqs) == {i \in 1..Len(reqs) : reqs[i].status /= "pending"}

\* the console entries that report an error
ErrorEntries(log) == {l \in 1..Len(log) : "message" \in DOMAIN log[l]}

\* the toasts with the given title
ToastsTitled(title) == {t \in 1..Len(toasts) : toasts[t] = title}

----------------------------------------------------------------------------
(* C1.  Validation runs before any network call, for the lead service as    *)
(* well as for the form: every request (POST /api/leads, config fetch, row  *)
(* insert) is issued for a payload that passed every field rule.  Stated as *)
(* claimed; submitLead validates nothing, so this is violated.              *)
C1_RequestsOnlyForValidPayloads ==
    /\ \A k \in 1..Len(posts) : LeadRulesHold(posts[k].body)
    /\ \A k \in 1..Len(fetches) : LeadRulesHold(calls[fetches[k].call].leadData)
    /\ \A k \in 1..Len(inserts) : LeadRulesHold(calls[inserts[k].call].leadData)

(* C2.  A form submission whose mobileNumber is not exactly 10 decimal      *)
(* digits is rejected with the field error on mobileNumber and issues no    *)
(* request; every string of exactly 10 decimal digits passes the rule.      *)
C2_MobileNumberRule ==
    \A a \in 1..Len(attempts) :
        LET m == attempts[a].data.mobileNumber IN
        /\ ~IsTenDigitString(m) =>
            /\ attempts[a].issues.mobileNumber = "Must be exactly 10 digits"
            /\ PostsOf(a) = {}
        /\ IsTenDigitString(m) => attempts[a].issues.mobileNumber = NoError
        /\ \A k \in PostsOf(a) : IsTenDigitString(posts[k].body.mobileNumber)

\* a submission that is valid but for the mobile number "98765" was rejected
\* on that field alone
C2_Witness ==
    \E a \in 1..Len(attempts) :
        /\ attempts[a].data.mobileNumber = <<"9", "8", "7", "6", "5">>
        /\ attempts[a].issues =
             [NoIssues EXCEPT !.mobileNumber = "Must be exactly 10 digits"]
        /\ errors = attempts[a].issues
        /\ posts = <<>>

(* C3.  A form submission in which parentName, city or schoolName holds a   *)
(* digit or a symbol is rejected on that field and issues no request;       *)
(* parentName and city must be non-empty, schoolName may be empty or absent.*)
C3_AlphabeticFields ==
    \A a \in 1..Len(attempts) :
        LET d == attempts[a].data
            e == attempts[a].issues
        IN
        /\ \A f \in {"parentName", "city", "schoolName"} :
              HasDigitOrSymbol(d[f]) => e[f] /= NoError /\ PostsOf(a) = {}
        /\ \A f \in {"parentName", "city"} :
              d[f] = EmptyStr => e[f] /= NoError /\ PostsOf(a) = {}
        /\ IsAbsent(d.schoolName) => e.schoolName = NoError

\* a submission that is valid but for a symbol in the school name was
\* rejected on that field alone
C3_Witness ==
    \E a \in 1..Len(attempts) :
        /\ HasDigitOrSymbol(attempts[a].data.schoolName)
        /\ attempts[a].issues =
             [NoIssues EXCEPT !.schoolName = "Only alphabets allowed"]
        /\ posts = <<>>

(* C4.  Validation accepts a payload only if childGrade is one of the fixed *)
(* grade bands: every request of the form carries a childGrade that is one  *)
(* of the grades the code enumerates.  Stated as claimed; the schema only   *)
(* asks for a non-empty string, so this is violated.                        *)
C4_GradeIsEnumerated ==
    \A a \in 1..Len(attempts) :
        (attempts[a].issues = NoIssues \/ PostsOf(a) /= {})
            => attempts[a].data.childGrade \in SelectGrades \cup gradeOptions

(* C5.  A payload that is valid in every other field and whose email is the *)
(* empty string, the form's default, is accepted by validation and is       *)
(* submitted.  Stated as claimed; z.string().email() rejects the empty      *)
(* string, so this is violated.                                             *)
C5_EmptyEmailAccepted ==
    \A a \in 1..Len(attempts) :
        LET d == attempts[a].data
            e == attempts[a].issues
        IN
        (/\ d.email = EmptyStr
         /\ \A f \in FormFields \ {"email"} : e[f] = NoError)
            => e.email = NoError /\ PostsOf(a) /= {}

(* C6.  One call of submitLead that succeeds issued exactly one insert and  *)
(* added exactly one row, and for a valid payload the Lead it returns       *)
(* equals the input, an empty optional input being absent in the result.    *)
C6_OneRowMatchingInput ==
    /\ Len(rows) = Cardinality(Returned)
    /\ \A i \in Returned :
        LET lead == calls[i].leadData
            out == calls[i].result
        IN
        /\ Cardinality(InsertsOf(i)) = 1
        /\ Cardinality({r \in 1..Len(rows) : rows[r].id = out.id}) = 1
        /\ LeadRulesHold(lead) =>
            /\ out.parentName = lead.parentName
            /\ out.childGrade = lead.childGrade
            /\ out.city = lead.city
            /\ out.mobileNumber = lead.mobileNumber
            /\ SameOptional(lead.schoolName, out.schoolName)
            /\ SameOptional(lead.email, out.email)

\* the second of two successful calls, with an empty email that came back
\* absent
C6_Witness ==
    /\ Len(rows) = 2
    /\ \E i \in Returned :
        /\ LeadRulesHold(calls[i].leadData)
        /\ calls[i].leadData.email = EmptyStr
        /\ calls[i].result.email = UNDEFINED
        /\ calls[i].result.id = rows[2].id

(* C7.  No request that creates a lead sets id or createdAt / created_at on *)
(* the client: not the row handed to the store's insert, not the body of    *)
(* POST /api/leads.  Stated as claimed; the insert row carries the client's *)
(* clock as created_at, so this is violated.                                *)
C7_ClientSetsNoIdNoCreatedAt ==
    /\ \A k \in 1..Len(inserts) :
          {"id", "created_at", "createdAt"} \cap DOMAIN inserts[k].row = {}
    /\ \A k \in 1..Len(posts) :
          {"id", "created_at", "createdAt"} \cap DOMAIN posts[k].body = {}

(* C8.  The insert row is the input under the snake-case column names, an   *)
(* optional schoolName or email that is empty or missing is sent as null,   *)
(* and no optional column is ever sent or persisted as the empty string.    *)
C8_SnakeCaseAndNull ==
    /\ \A k \in 1..Len(inserts) :
        LET lead == calls[inserts[k].call].leadData
            row == inserts[k].row
        IN
        /\ {"parent_name", "child_grade", "school_name", "city",
            "mobile_number", "email"} \subseteq DOMAIN row
        /\ row.parent_name = lead.parentName
        /\ row.child_grade = lead.childGrade
        /\ row.city = lead.city
        /\ row.mobile_number = lead.mobileNumber
        /\ IsAbsent(lead.schoolName) => row.school_name = NULL
        /\ IsAbsent(lead.email) => row.email = NULL
        /\ row.school_name \in {NULL, lead.schoolName}
        /\ row.email \in {NULL, lead.email}
        /\ row.school_name \notin {EmptyStr, UNDEFINED}
        /\ row.email \notin {EmptyStr, UNDEFINED}
    /\ \A r \in 1..Len(rows) :
        /\ rows[r].school_name \notin {EmptyStr, UNDEFINED}
        /\ rows[r].email \notin {EmptyStr, UNDEFINED}

\* a lead with an empty school name and a missing email was persisted with
\* both columns null
C8_Witness ==
    \E k \in 1..Len(inserts) :
        /\ calls[inserts[k].call].leadData.schoolName = EmptyStr
        /\ calls[inserts[k].call].leadData.email = UNDEFINED
        /\ inserts[k].status = "ok"
        /\ inserts[k].row.school_name = NULL
        /\ \E r \in 1..Len(rows) :
            /\ rows[r].id = inserts[k].data.id
            /\ rows[r].school_name = NULL
            /\ rows[r].email = NULL

(* C9.  When the store answers the insert with a row, submitLead returns a  *)
(* Lead whose id and createdAt are that row's id and created_at and whose   *)
(* other fields are that row's columns, a null school_name or email being   *)
(* absent in the Lead.                                                      *)
C9_ResultIsReturnedRow ==
    \A k \in 1..Len(inserts) :
        inserts[k].status = "ok" =>
            LET data == inserts[k].data
                c == calls[inserts[k].call]
            IN
            /\ c.pc = "returned"
            /\ c.result.id = data.id
            /\ c.result.createdAt = data.created_at
            /\ c.result.parentName = data.parent_name
            /\ c.result.childGrade = data.child_grade
            /\ c.result.city = data.city
            /\ c.result.mobileNumber = data.mobile_number
            /\ c.result.schoolName =
                 (IF data.school_name = NULL THEN UNDEFINED ELSE data.school_name)
            /\ c.result.email =
                 (IF data.email = NULL THEN UNDEFINED ELSE data.email)

\* a returned Lead for the store's first row, whose school_name is null
C9_Witness ==
    \E k \in 1..Len(inserts) :
        /\ inserts[k].status = "ok"
        /\ inserts[k].data.school_name = NULL
        /\ inserts[k].data.mobile_number = MobileBase(MobileDigits)
        /\ calls[inserts[k].call].result.schoolName = UNDEFINED
        /\ calls[inserts[k].call].result.id = StoreId(1)
        /\ calls[inserts[k].call].result.createdAt = inserts[k].row.created_at

(* C10, as claimed.  When the store reports an error for the insert,        *)
(* submitLead fails with an error that carries the backend's message, hint  *)
(* and code to the caller.                                                  *)
C10_ErrorCarriesMessageHintCode ==
    \A k \in 1..Len(inserts) :
        inserts[k].status = "failed" =>
            LET e == inserts[k].error
                c == calls[inserts[k].call]
            IN
            /\ c.pc = "threw"
            /\ Carries(c.error, e.message)
            /\ IsString(e.hint) => Carries(c.error, e.hint)
            /\ Carries(c.error, e.code)

(* C10, amended.  When the store reports an error for the insert,           *)
(* submitLead fails (returns no Lead) with an Error whose message text      *)
(* holds the backend's message and, when there is one, its hint; the        *)
(* backend's code and details are written to the log only, and the Error    *)
(* has no field that holds them.                                            *)
C10_ErrorCarriesMessageAndHint ==
    \A k \in 1..Len(inserts) :
        inserts[k].status = "failed" =>
            LET e == inserts[k].error
                c == calls[inserts[k].call]
            IN
            /\ c.pc = "threw"
            /\ inserts[k].call \notin Returned
            /\ DOMAIN c.error = {"message"}
            /\ IsInfix(e.message, c.error.message)
            /\ IsString(e.hint) => IsInfix(e.hint, c.error.message)
            /\ \E l \in 1..Len(c.log) :
                /\ c.log[l].label = "Supabase error details:"
                /\ c.log[l].code = e.code
                /\ c.log[l].details = e.details

\* a call that failed on a store error that has a hint
C10_Witness ==
    \E k \in 1..Len(inserts) :
        /\ inserts[k].status = "failed"
        /\ inserts[k].error.hint = ErrHint
        /\ calls[inserts[k].call].pc = "threw"
        /\ IsInfix(ErrHint, calls[inserts[k].call].error.message)

(* C11.  Nothing is retried automatically: every run of handleSubmit has   *)
(* issued at most one POST /api/leads, and every call of submitLead has    *)
(* issued at most one insert and, through getSupabase, at most one config  *)
(* fetch, whether those requests are pending, succeeded or failed; so      *)
(* there are never more requests of a kind than submission attempts or     *)
(* calls that could have issued them.                                      *)
C11_NoAutomaticRetry ==
    /\ \A a \in 1..Len(attempts) : Cardinality(PostsOf(a)) <= 1
    /\ \A k \in 1..Len(posts) : posts[k].attempt \in 1..Len(attempts)
    /\ \A i \in 1..Len(calls) :
        /\ Cardinality(InsertsOf(i)) <= 1
        /\ Cardinality(FetchesOf(i)) <= 1
    /\ \A k \in 1..Len(inserts) : inserts[k].call \in 1..Len(calls)
    /\ \A k \in 1..Len(fetches) :
        fetches[k].call \in (1..Len(calls)) \cup {AppCall}
    /\ Cardinality(FetchesOf(AppCall)) <= 1

\* a submission whose POST failed and a call whose own config fetch
\* succeeded and whose insert failed: each request was issued once
C11_Witness ==
    /\ \E a \in 1..Len(attempts) :
        \E k \in PostsOf(a) : posts[k].status = "failed"
    /\ \E i \in 1..Len(calls) :
        /\ calls[i].pc = "threw"
        /\ \E k \in FetchesOf(i) : fetches[k].status = "parsed"
        /\ \E k \in InsertsOf(i) : inserts[k].status = "failed"

(* C12.  Submission is not idempotent: when submitLead was called twice    *)
(* with the same valid payload and both calls returned, two inserts were   *)
(* issued, one by each call, and the table holds two rows for them whose   *)
(* ids differ; the second call is not recognised as a duplicate.           *)
C12_NotIdempotent ==
    \A i \in Returned : \A j \in Returned :
        (i /= j /\ calls[i].leadData = calls[j].leadData
              /\ LeadRulesHold(calls[i].leadData)) =>
            /\ InsertsOf(i) /= {} /\ InsertsOf(j) /= {}
            /\ InsertsOf(i) \cap InsertsOf(j) = {}
            /\ calls[i].result.id /= calls[j].result.id
            /\ \E m \in 1..Len(rows) : \E n \in 1..Len(rows) :
                /\ m /= n
                /\ rows[m].id = calls[i].result.id
                /\ rows[n].id = calls[j].result.id
                /\ rows[m].mobile_number = rows[n].mobile_number

\* the same valid payload submitted twice, both calls returned
C12_Witness ==
    /\ Len(calls) >= 2
    /\ calls[1].pc = "returned" /\ calls[2].pc = "returned"
    /\ calls[1].leadData = calls[2].leadData
    /\ LeadRulesHold(calls[1].leadData)
    /\ Len(rows) = 2

(* C13.  getSupabase, as submitLead calls it: when a client is cached the  *)
(* call gets that client, no config fetch is issued and the cache and the  *)
(* credentials stay as they are; when none is cached the call issues the   *)
(* config fetch of an initialization, and the step in which an             *)
(* initialization succeeds caches the new client and hands that same       *)
(* client to the caller.                                                   *)
C13_GetSupabaseFrame ==
    [][ /\ (Len(calls') = Len(calls) + 1 /\ supabaseClient /= NULL) =>
            /\ fetches' = fetches
            /\ supabaseClient' = supabaseClient
            /\ supabaseUrl' = supabaseUrl
            /\ supabaseAnonKey' = supabaseAnonKey
            /\ clients' = clients
            /\ Len(inserts') = Len(inserts) + 1
            /\ inserts'[Len(inserts')].call = Len(calls')
            /\ inserts'[Len(inserts')].client = supabaseClient
        /\ (Len(calls') = Len(calls) + 1 /\ supabaseClient = NULL) =>
            /\ fetches' = Append(fetches, NewFetch(Len(calls')))
            /\ inserts' = inserts
        /\ \A i \in 1..Len(calls) :
            (calls[i].pc = "json" /\ calls'[i].pc = "insert") =>
                /\ clients' = Append(clients, supabaseClient')
                /\ supabaseClient' /= NULL
                /\ supabaseUrl' = supabaseClient'[3]
                /\ supabaseAnonKey' = supabaseClient'[4]
                /\ inserts'[Len(inserts')].call = i
                /\ inserts'[Len(inserts')].client = supabaseClient'
      ]_vars

\* the first call initialized the loader, the second was handed the cached
\* client without a fetch of its own
C13_Witness ==
    /\ Len(calls) = 2
    /\ FetchesOf(1) /= {} /\ FetchesOf(2) = {}
    /\ supabaseClient /= NULL
    /\ \E k \in InsertsOf(1) : inserts[k].client = supabaseClient
    /\ \E k \in InsertsOf(2) : inserts[k].client = supabaseClient

(* C14.  The loader as a state machine over "no client cached" and "a      *)
(* client cached": a step leaves "no client cached" only by an             *)
(* initialization that succeeds, which caches the client it created; a     *)
(* step in which an initialization fails leaves the cache as it was, so    *)
(* after a failure without a cached client a new call of submitLead issues *)
(* a fresh config fetch; and from "a client cached" no step, a failing     *)
(* initialization included, leads back to "no client cached".              *)
C14_LoaderStateMachine ==
    [][ /\ supabaseClient /= NULL => supabaseClient' /= NULL
        /\ (supabaseClient = NULL /\ supabaseClient' /= NULL) =>
                clients' = Append(clients, supabaseClient')
        /\ clients' /= clients =>
                /\ clients' = Append(clients, supabaseClient')
                /\ supabaseClient' /= NULL
        /\ ((\E i \in 1..Len(calls) :
                calls[i].pc \in {"config", "json"} /\ calls'[i].pc = "threw")
            \/ (appPc \in {"config", "json"} /\ appPc' = "failed")) =>
                /\ supabaseClient' = supabaseClient
                /\ clients' = clients
        /\ (Len(calls') = Len(calls) + 1 /\ supabaseClient = NULL) =>
                /\ supabaseClient' = NULL
                /\ fetches' = Append(fetches, NewFetch(Len(calls')))
      ]_vars

\* App cached a client, and the initialization of a call of submitLead
\* failed: the client is still cached
C14_Witness ==
    /\ appPc = "done"
    /\ supabaseClient /= NULL
    /\ \E i \in 1..Len(calls) :
        /\ calls[i].pc = "threw"
        /\ InsertsOf(i) = {}
        /\ \E k \in FetchesOf(i) : fetches[k].status = "failed"

(* C15.  An initialization fails, creates no client and caches nothing     *)
(* whenever its config fetch failed (unreachable or not ok) or the JSON it *)
(* got lacks supabaseUrl, lacks supabaseAnonKey or has one of them empty:  *)
(* the call that started it threw an initialization error and issued no    *)
(* insert.  It succeeds, creating and caching one client built from the    *)
(* two credentials, only when both are there and not empty.                *)
C15_InitFailsWithoutCredentials ==
    /\ \A k \in 1..Len(fetches) :
        LET i == fetches[k].call
            body == fetches[k].body
            failed == /\ ClientsOf(k) = {}
                      /\ supabaseClient = NULL \/ supabaseClient[2] /= k
                      /\ i /= AppCall =>
                            /\ calls[i].pc = "threw"
                            /\ InsertsOf(i) = {}
                            /\ \E l \in 1..Len(calls[i].log) :
                                 calls[i].log[l] =
                                     InitFailedLog(calls[i].error)
        IN
        /\ fetches[k].status = "failed" =>
            /\ failed
            /\ i /= AppCall =>
                 calls[i].error.message \in {MsgNetwork, MsgConfigFetch}
        /\ (fetches[k].status = "parsed"
                /\ ~(IsPresent(body.supabaseUrl)
                     /\ IsPresent(body.supabaseAnonKey))) =>
            /\ failed
            /\ i /= AppCall => calls[i].error.message = MsgNoCredentials
        /\ (fetches[k].status = "parsed"
                /\ IsPresent(body.supabaseUrl)
                /\ IsPresent(body.supabaseAnonKey)) =>
            /\ Cardinality(ClientsOf(k)) = 1
            /\ \A n \in ClientsOf(k) :
                 clients[n] = createClient(k, body.supabaseUrl,
                                           body.supabaseAnonKey)
            /\ i /= AppCall => InsertsOf(i) /= {}
    /\ \A n \in 1..Len(clients) :
        /\ clients[n][2] \in 1..Len(fetches)
        /\ LET body == fetches[clients[n][2]].body IN
            /\ fetches[clients[n][2]].status = "parsed"
            /\ IsPresent(body.supabaseUrl)
            /\ IsPresent(body.supabaseAnonKey)
    /\ supabaseClient /= NULL =>
        \E n \in 1..Len(clients) : clients[n] = supabaseClient

\* a call whose configuration had an empty supabaseAnonKey threw, and
\* nothing is cached
C15_Witness ==
    /\ supabaseClient = NULL
    /\ clients = <<>>
    /\ \E k \in 1..Len(fetches) :
        /\ fetches[k].status = "parsed"
        /\ fetches[k].body.supabaseUrl = UrlSample
        /\ fetches[k].body.supabaseAnonKey = EmptyStr
        /\ fetches[k].call /= AppCall
        /\ calls[fetches[k].call].pc = "threw"
        /\ calls[fetches[k].call].error.message = MsgNoCredentials

(* C16.  The cached client and its credentials are initialized at most     *)
(* once: after the first initialization that succeeded no further client   *)
(* is created, and the cached client stays the one created first.          *)
C16_InitializedAtMostOnce ==
    /\ Len(clients) <= 1
    /\ supabaseClient /= NULL =>
        /\ supabaseClient = clients[1]
        /\ supabaseUrl = clients[1][3]
        /\ supabaseAnonKey = clients[1][4]

(* C17.  The race of the first callers is not mitigated: calls of          *)
(* submitLead that start while no client is cached each issue a config     *)
(* fetch of their own, and each of them whose initialization succeeds      *)
(* creates a client of its own and is handed that client, so two callers   *)
(* can hold different clients; the cache holds the client of the           *)
(* initialization that completed last.                                     *)
C17_FirstCallerRace ==
    /\ \A i \in 1..Len(calls) : \A j \in 1..Len(calls) :
        i /= j => FetchesOf(i) \cap FetchesOf(j) = {}
    /\ \A m \in 1..Len(clients) : \A n \in 1..Len(clients) :
        m /= n => clients[m] /= clients[n]
    /\ \A k \in 1..Len(inserts) :
        FetchesOf(inserts[k].call) /= {} =>
            /\ inserts[k].client[2] \in FetchesOf(inserts[k].call)
            /\ \E n \in 1..Len(clients) : clients[n] = inserts[k].client
    /\ supabaseClient =
         (IF clients = <<>> THEN NULL ELSE clients[Len(clients)])

\* both calls fetched the configuration; the second call's initialization
\* completed first and the first call's last: the two calls hold different
\* clients and the cache holds the first call's
C17_Witness ==
    /\ Len(calls) = 2
    /\ FetchesOf(1) /= {} /\ FetchesOf(2) /= {}
    /\ Len(clients) = 2
    /\ clients[1][2] \in FetchesOf(2)
    /\ clients[2][2] \in FetchesOf(1)
    /\ supabaseClient = clients[2]
    /\ \E k \in InsertsOf(1) : inserts[k].client = clients[2]
    /\ \E k \in InsertsOf(2) : inserts[k].client = clients[1]

(* C18.  When App's initialization of the configuration fails, App shows   *)
(* the error view; while it does, the home page and its form are not       *)
(* rendered and no submission has been or is issued; and the only step    *)
(* that leaves the error view is the reload of the page, every other step  *)
(* leaves App in the error view with no submission issued.                 *)
C18_ErrorViewBlocks ==
    [][ /\ (appPc \in {"config", "json"} /\ appPc' = "failed") =>
            /\ AppView' = "error"
            /\ initError' = MsgInitFailed
        /\ AppView = "error" =>
            /\ ~HomeRendered
            /\ attempts = <<>> /\ posts = <<>>
            /\ \/ /\ reloads' = reloads + 1
                  /\ AppView' = "loading"
                  /\ appPc' = "mount"
               \/ /\ reloads' = reloads
                  /\ AppView' = "error"
                  /\ ~HomeRendered'
                  /\ attempts' = <<>> /\ posts' = <<>>
                  /\ values' = defaultValues
      ]_vars

\* the configuration lacked supabaseAnonKey: App shows the error view
C18_Witness ==
    /\ appPc = "failed"
    /\ AppView = "error"
    /\ initError = MsgInitFailed
    /\ ~HomeRendered
    /\ \E k \in FetchesOf(AppCall) :
        /\ fetches[k].status = "parsed"
        /\ fetches[k].body.supabaseUrl = UrlSample
        /\ fetches[k].body.supabaseAnonKey = UNDEFINED

(* C19.  In the step in which the POST of a submission fails, exactly one  *)
(* toast is added, the error toast, the form values stay as they were      *)
(* entered and isSubmitting becomes false; the form values go back to the  *)
(* defaults only in a step in which a POST succeeds, and that step adds    *)
(* exactly one toast, the success toast.                                   *)
C19_FailureKeepsForm ==
    [][ /\ \A i \in 1..Len(posts) :
            (posts[i].status = "pending" /\ posts'[i].status = "failed") =>
                /\ toasts' = Append(toasts, "Error submitting form")
                /\ values' = values
                /\ isSubmitting' = FALSE
        /\ \A i \in 1..Len(posts) :
            (posts[i].status = "pending" /\ posts'[i].status = "ok") =>
                /\ toasts' = Append(toasts, "Form submitted successfully!")
                /\ values' = defaultValues
                /\ isSubmitting' = FALSE
        /\ values' /= values =>
            /\ values' = defaultValues
            /\ \E i \in 1..Len(posts) :
                posts[i].status = "pending" /\ posts'[i].status = "ok"
        /\ toasts' /= toasts =>
            \E i \in 1..Len(posts) :
                posts[i].status = "pending" /\ posts'[i].status /= "pending"
      ]_vars

\* a submission whose POST failed: one error toast, the values still in
\* the form, isSubmitting false
C19_Witness ==
    /\ Len(posts) = 1
    /\ posts[1].status = "failed"
    /\ toasts = <<"Error submitting form">>
    /\ values = posts[1].body
    /\ values /= defaultValues
    /\ isSubmitting = FALSE

(* C20.  The leads table is used insert-only: a step changes the table     *)
(* only by appending one new row, the row stored for an insert that        *)
(* succeeds in that step, with an id no earlier row has; every row that    *)
(* was in the table before is still there, at its place and unchanged.     *)
C20_InsertOnly ==
    [][ rows' /= rows =>
            /\ Len(rows') = Len(rows) + 1
            /\ SubSeq(rows', 1, Len(rows)) = rows
            /\ \A n \in 1..Len(rows) : rows[n].id /= rows'[Len(rows')].id
            /\ \E k \in 1..Len(inserts) :
                /\ inserts[k].status = "pending"
                /\ inserts'[k].status = "ok"
                /\ inserts'[k].data = rows'[Len(rows')]
                /\ \A f \in DOMAIN inserts[k].row :
                     rows'[Len(rows')][f] = inserts[k].row[f]
      ]_vars

\* two inserts succeeded: the table holds the row of each
C20_Witness ==
    /\ Len(rows) = 2
    /\ Len(inserts) = 2
    /\ inserts[1].status = "ok" /\ inserts[2].status = "ok"
    /\ \E m \in 1..2 : rows[m] = inserts[1].data
    /\ \E n \in 1..2 : rows[n] = inserts[2].data
    /\ rows[1].id /= rows[2].id

(* C21.  Concurrent submissions are neither coordinated nor deduplicated:  *)
(* every submission of the form that passed validation has a POST of its   *)
(* own and every call of submitLead has an insert of its own, whether or   *)
(* not an earlier request with the same payload is still in flight, and    *)
(* two inserts that both succeeded left two rows in the table.             *)
C21_ConcurrentSubmissionsIndependent ==
    /\ \A a \in 1..Len(attempts) :
        attempts[a].issues = NoIssues =>
            /\ Cardinality(PostsOf(a)) = 1
            /\ \A k \in PostsOf(a) : posts[k].body = attempts[a].data
    /\ \A i \in 1..Len(calls) :
        /\ Cardinality(InsertsOf(i)) = 1
        /\ \A j \in 1..Len(calls) :
            (i /= j /\ calls[i].pc = "returned" /\ calls[j].pc = "returned") =>
                /\ Len(rows) >= 2
                /\ calls[i].result.id /= calls[j].result.id
    /\ Cardinality({k \in 1..Len(inserts) : inserts[k].status = "ok"})
         = Len(rows)

\* two POSTs with the same body are in flight at the same time, and so are
\* two inserts of the same lead
C21_Witness ==
    /\ Len(posts) >= 2
    /\ posts[1].status = "pending" /\ posts[2].status = "pending"
    /\ posts[1].body = posts[2].body
    /\ Len(inserts) >= 2
    /\ inserts[1].status = "pending" /\ inserts[2].status = "pending"
    /\ calls[1].leadData = calls[2].leadData

(* C22.  Within one call of submitLead the steps are ordered: no insert    *)
(* is issued while the call still waits for the configuration; an insert   *)
(* is issued only with a client, the cached one or the one created from    *)
(* the call's own config fetch after that was parsed with both             *)
(* credentials; a result is returned only once the insert has been         *)
(* answered with a row; and a call whose initialization failed issued no   *)
(* insert and threw the very error the initialization threw.               *)
C22_StepsOrdered ==
    \A i \in 1..Len(calls) :
        LET c == calls[i] IN
        /\ c.pc \in {"config", "json"} =>
            /\ InsertsOf(i) = {}
            /\ Cardinality(FetchesOf(i)) = 1
            /\ \A k \in FetchesOf(i) :
                fetches[k].status = (IF c.pc = "config" THEN "pending"
                                                        ELSE "ok")
        /\ \A k \in InsertsOf(i) :
            /\ inserts[k].client /= NULL
            /\ \E n \in 1..Len(clients) : clients[n] = inserts[k].client
            /\ \A f \in FetchesOf(i) :
                /\ fetches[f].status = "parsed"
                /\ IsPresent(fetches[f].body.supabaseUrl)
                /\ IsPresent(fetches[f].body.supabaseAnonKey)
                /\ inserts[k].client =
                     createClient(f, fetches[f].body.supabaseUrl,
                                  fetches[f].body.supabaseAnonKey)
        /\ c.pc = "insert" =>
            /\ c.result = NULL
            /\ \E k \in InsertsOf(i) : inserts[k].status = "pending"
        /\ c.pc = "returned" =>
            \E k \in InsertsOf(i) :
                /\ inserts[k].status = "ok"
                /\ c.result = FromRow(inserts[k].data)
        /\ (c.pc = "threw" /\ InsertsOf(i) = {}) =>
            /\ c.result = NULL
            /\ Cardinality(FetchesOf(i)) = 1
            /\ \A k \in FetchesOf(i) :
                fetches[k].status \in {"failed", "ok", "parsed"}
            /\ c.error.message \in
                 {MsgNetwork, MsgConfigFetch, MsgJson, MsgNoCredentials}
            /\ c.log = <<InitFailedLog(c.error),
                         [label |-> "Error submitting lead:",
                          message |-> c.error.message]>>

\* one call returned a Lead after its own config fetch and its insert, the
\* other threw the error of its failed initialization and issued no insert
C22_Witness ==
    /\ Len(calls) = 2
    /\ calls[1].pc = "returned"
    /\ FetchesOf(1) /= {} /\ InsertsOf(1) /= {}
    /\ calls[2].pc = "threw"
    /\ InsertsOf(2) = {}
    /\ calls[2].error.message = MsgNoCredentials

(* C23.  Nothing times out or is cancelled: while the POST of a submission *)
(* is unanswered isSubmitting is true and the submission has shown no      *)
(* toast, and while App's config fetch is unanswered App shows the loading *)
(* view; once every POST is answered isSubmitting is false and each        *)
(* submission has shown exactly one toast, and once App's initialization   *)
(* has ended App shows the application or the error view.                  *)
C23_PendingUntilAnswered ==
    /\ Pending(posts) /= {} => isSubmitting = TRUE
    /\ Pending(posts) = {} => isSubmitting = FALSE
    /\ Len(toasts) = Cardinality(Settled(posts))
    /\ appPc \in {"mount", "config", "json"} <=> AppView = "loading"
    /\ appPc = "done" <=> AppView = "app"
    /\ appPc = "failed" <=> AppView = "error"

(* C24.  Every failure is logged and shown: a failed initialization of the *)
(* configuration by App left an error entry in the console and the error   *)
(* view, a failed POST of the form left an error entry in the console and  *)
(* exactly one error toast, and a call of submitLead that failed, on its   *)
(* initialization or on its insert, left an error entry in the console.    *)
C24_FailuresLoggedAndShown ==
    /\ appPc = "failed" =>
        /\ ErrorEntries(appLog) /= {}
        /\ AppView = "error"
    /\ Cardinality(ToastsTitled("Error submitting form")) =
         Cardinality({k \in 1..Len(posts) : posts[k].status = "failed"})
    /\ (\E k \in 1..Len(posts) : posts[k].status = "failed") =>
         ErrorEntries(appLog) /= {}
    /\ \A i \in 1..Len(calls) :
        calls[i].pc = "threw" => ErrorEntries(calls[i].log) /= {}

(* C25.  isSubmitting is true exactly when at least one POST of the form   *)
(* is in flight, also when two submissions overlap and one of them is      *)
(* answered before the other.                                              *)
C25_SubmittingIffInFlight ==
    isSubmitting = TRUE <=> Pending(posts) /= {}

----------------------------------------------------------------------------
\* C27: when the store answers the insert with neither an error nor a row,
\* submitLead fails with the error "Failed to create lead: No data
\* returned" and returns nothing; every Lead that submitLead returns
\* carries the non-empty id of the row that its insert stored.
C27_NoDataIsAnError ==
    /\ \A k \in 1..Len(inserts) :
            inserts[k].status = "nodata" =>
                /\ calls[inserts[k].call].pc = "threw"
                /\ calls[inserts[k].call].error.message = MsgNoData
    /\ \A i \in Returned :
            /\ IsPresent(calls[i].result.id)
            /\ inserts[InsertOf(i)].status = "ok"
            /\ calls[i].result.id = inserts[InsertOf(i)].data.id

\* one call failed on an answer without a row and another one returned
C27_Witness ==
    /\ \E k \in 1..Len(inserts) :
            inserts[k].status = "nodata" /\ calls[inserts[k].call].pc = "threw"
    /\ Returned /= {}

----------------------------------------------------------------------------
\* C28: App renders one of its three views, decided by where its effect
\* stands: the loading view until initSupabase() has settled, the error
\* view whenever an init error is recorded, and the application view (and
\* with it the lead form) only when initSupabase() has succeeded on a
\* configuration with both credentials, the client is cached and no init
\* error is recorded; outside the application view no submission has been
\* attempted and no form request has been issued.
C28_FormOnlyAfterInit ==
    /\ AppView \in {"loading", "error", "app"}
    /\ AppView = "loading" <=> appPc \in {"mount", "config", "json"}
    /\ AppView = "error" <=> appPc = "failed"
    /\ initError /= NULL => AppView = "error" /\ ~HomeRendered
    /\ HomeRendered =>
        /\ AppView = "app"
        /\ appPc = "done"
        /\ isSupabaseInitialized = TRUE
        /\ initError = NULL
        /\ supabaseClient /= NULL
        /\ \E k \in FetchesOf(AppCall) :
            /\ fetches[k].status = "parsed"
            /\ IsPresent(fetches[k].body.supabaseUrl)
            /\ IsPresent(fetches[k].body.supabaseAnonKey)
    /\ AppView /= "app" => attempts = <<>> /\ posts = <<>>

\* after a failed initialization and a reload the application view is
\* shown and a request has been issued from its form
C28_Witness ==
    /\ reloads > 0
    /\ AppView = "app"
    /\ HomeRendered
    /\ posts /= <<>>

----------------------------------------------------------------------------
\* C29: in the row that submitLead hands to the store, school_name and
\* email follow one rule: the column is null exactly when the input is
\* missing or the empty string, and otherwise it is the input string as
\* it was given, an input made only of whitespace included.
C29_OptionalFieldsOneRule ==
    \A k \in 1..Len(inserts) :
        LET leadData == calls[inserts[k].call].leadData
            row == inserts[k].row
        IN
        /\ row.school_name = NULL <=> IsAbsent(leadData.schoolName)
        /\ ~IsAbsent(leadData.schoolName) =>
                row.school_name = leadData.schoolName
        /\ row.email = NULL <=> IsAbsent(leadData.email)
        /\ ~IsAbsent(leadData.email) => row.email = leadData.email

----------------------------------------------------------------------------
\* C30: a submit of the main or of the sticky form validates all six
\* fields of the one shared form state and issues a request exactly when
\* all six pass; a submit in which the four fields the sticky form shows
\* are valid and the two it does not show still hold their defaults
\* issues a request.
C30_StickySubmitIssuesRequest ==
    \A a \in 1..Len(attempts) :
        LET d == attempts[a].data
            e == attempts[a].issues
        IN
        /\ e = SchemaIssues(d)
        /\ e = NoIssues <=> PostsOf(a) /= {}
        /\ (/\ \A f \in StickyFormFields : e[f] = NoError
            /\ \A f \in FormFields \ StickyFormFields : d[f] = defaultValues[f])
                => PostsOf(a) /= {}

============================================================================
